---- MODULE Spec2Model ----
(***************************************************************************)
(* A model of pymongodb: the MongoDBModel document mapping                 *)
(* (src/pymongodb/models.py, src/pymongodb/attributes.py) and its          *)
(* BatchWrite staging queue.                                               *)
(*                                                                         *)
(* Documents, filters and keyword arguments are functions from field names *)
(* to values.  Python's None is the absence of the key: a descriptor read  *)
(* of a missing key gives None (attributes.py:47).  The document store is  *)
(* an external collaborator; its answers (found document, modified count,  *)
(* bulk-write success or failure) are chosen nondeterministically.         *)
(***************************************************************************)
EXTENDS Integers, Sequences, FiniteSets, TLC

VARIABLES
    models,              \* instance name -> [attributes, attribute_values]
    pending_operations,  \* BatchWrite.pending_operations
    ordered,             \* BatchWrite.ordered
    pc,                  \* "open", or "flushing" while bulk_write is awaited
    inflight,            \* the request list handed to the awaited bulk_write
    caller,              \* the BatchWrite call in progress or last finished
    bulk_answer,         \* what the store answered to the last bulk_write
    raised,              \* what the last finished call raised, or NoError
    staged,              \* history: every operation passed to a stage call
    staged_models,       \* history: the operation's instance as it was then
    bulk_calls,          \* history: every bulk_write call, in order
    explicit,            \* history: commit or __aexit__ has been called
    last_call,           \* the last MongoDBModel call: method, instance, form
    store_calls,         \* store calls of the last MongoDBModel call, each
                         \* with the store's answer
    result,              \* what the last MongoDBModel call returned
    sync_requests,       \* cursor request of the last synchronous read
    async_requests,      \* cursor request of the same asynchronous read
    Connection_connection, \* Connection._connection: a client, or NoClient
    cls_connection,      \* the model class's _connection
    cls_collection,      \* the model class's _collection
    clients,             \* history: the thread that created each client
    threads,             \* thread -> its position in _get_connection
    classes,             \* defined model type -> its base and DoesNotExist
    attempt,             \* the last get inside try/except: what it raised
                         \* and whether the handler caught it
    attr_kind,           \* the attribute class whose methods were called
    attr_value,          \* the value given to serialize
    storable,            \* what serialize returned
    restored             \* what deserialize returned for storable, if called

batch_vars == <<pending_operations, ordered, pc, inflight, caller,
                bulk_answer, staged, staged_models, bulk_calls, explicit>>
model_vars == <<last_call, store_calls, result>>
query_vars == <<sync_requests, async_requests>>
conn_vars == <<Connection_connection, cls_connection, cls_collection,
               clients, threads>>
type_vars == <<classes, attempt>>
attr_vars == <<attr_kind, attr_value, storable, restored>>
aux_vars == <<conn_vars, type_vars, attr_vars>>
other_than_conn == <<models, batch_vars, raised, model_vars, query_vars,
                     type_vars, attr_vars>>
other_than_types == <<models, batch_vars, raised, model_vars, query_vars,
                      conn_vars, attr_vars>>
other_than_attrs == <<models, batch_vars, raised, model_vars, query_vars,
                      conn_vars, type_vars>>
vars == <<models, batch_vars, raised, model_vars, query_vars, aux_vars>>

----------------------------------------------------------------------------
(* Bounds of the model *)

\* stage calls made on the one BatchWrite
MaxStage == 3

----------------------------------------------------------------------------
(* Values *)

None == "None"
Empty == [k \in {} |-> None]

Get(d, k) == IF k \in DOMAIN d THEN d[k] ELSE None

Overlay(a, b) ==
    [k \in DOMAIN a \cup DOMAIN b |-> IF k \in DOMAIN b THEN b[k] ELSE a[k]]

Inst == {"m1", "m2"}
ObjectIds == {"oid1", "oid2"}

\* the registered fields of the model type: _id (models.py:58) and, as in
\* the test's MovieModel, a text field with a default and a number field
Attributes == {"_id", "title", "year"}

Default(name) == IF name = "title" THEN "CN" ELSE None

\* pymongodb.constants is not part of the sources; models.py:14 imports these
BATCH_WRITE_PAGE_LIMIT == 2
ADD == 1
DELETE == 2
UPDATE == 3
INC == 4

NoError == [type |-> "none"]

----------------------------------------------------------------------------
(* AttributeContainer and MongoDBModel instances *)

\* the values _set_defaults assigns: every non-None default
set_defaults ==
    [name \in {a \in Attributes : Default(a) # None} |-> Default(name)]

\* AttributeContainer.__init__(**attributes)
Construct(attributes) ==
    [attributes |-> attributes,
     attribute_values |-> Overlay(set_defaults, attributes)]

mongo_obj_id(m) == Get(m.attribute_values, "_id")

\* Python truth of an object id, and of a dict
TruthyId(v) == v # None
TruthyDict(d) == DOMAIN d # {}

\* Attribute.deserialize: the text, number and object id kinds do not
\* override it
deserialize(name, value) == value

\* from_raw_data(data): the registered fields of the document, deserialized,
\* passed to the constructor
from_raw_data(data) ==
    Construct([name \in DOMAIN data \cap Attributes |->
                  deserialize(name, data[name])])

\* _deserialize(attrs): every registered field is set, to the deserialized
\* value or to None
_deserialize(m, attrs) ==
    [m EXCEPT !.attribute_values =
        [name \in DOMAIN attrs \cap Attributes |->
            deserialize(name, attrs[name])]]

----------------------------------------------------------------------------
(* The store: what a call may answer *)

\* documents a collection may hold
Documents ==
    {[_id |-> "oid1", title |-> "A"],
     [_id |-> "oid1", title |-> "X", year |-> 1988],
     [_id |-> "oid2", title |-> "A", rating |-> "PG"]}

Matches(document, filter) ==
    \A k \in DOMAIN filter : k \in DOMAIN document /\ document[k] = filter[k]

NoDocument == [found |-> FALSE]
Found(document) == [found |-> TRUE, document |-> document]

\* the answers find_one(filter) can give
find_one_answers(filter) ==
    {NoDocument} \cup {Found(d) : d \in {x \in Documents : Matches(x, filter)}}

----------------------------------------------------------------------------
(* MongoDBModel: save, delete, update, inc, get *)

Forms == {"sync", "async"}

AttributesEmpty(what) ==
    [type |-> "AttributesEmptyException", msg |-> what]
DoesNotExist == [type |-> "DoesNotExist"]

NoResult == [type |-> "None"]

CallOf(method, i, form) == [method |-> method, item |-> i, form |-> form]

\* save / async_save: insert_one(self.attribute_values); the driver adds
\* the _id the store assigns to the dictionary it is given
MongoDBModel_save(i, form, oid) ==
    /\ last_call' = CallOf("save", i, form)
    /\ store_calls' = <<[op |-> "insert_one",
                         document |-> models[i].attribute_values]>>
    /\ models' = [models EXCEPT ![i].attribute_values =
                     Overlay([_id |-> oid], @)]
    /\ raised' = NoError
    /\ result' = [type |-> "InsertOneResult"]
    /\ UNCHANGED <<batch_vars, query_vars, aux_vars>>

\* mutant: delete prefers the raw attributes to the object id
MongoDBModel_delete_by_attributes(i, form) ==
    LET self == models[i] IN
    /\ last_call' = CallOf("delete", i, form)
    /\ IF TruthyDict(self.attributes)
       THEN /\ store_calls' = <<[op |-> "delete_one",
                                 filter |-> self.attributes]>>
            /\ raised' = NoError
            /\ result' = [type |-> "DeleteResult"]
       ELSE IF TruthyId(mongo_obj_id(self))
       THEN /\ store_calls' = <<[op |-> "delete_one",
                                 filter |-> [_id |-> mongo_obj_id(self)]]>>
            /\ raised' = NoError
            /\ result' = [type |-> "DeleteResult"]
       ELSE /\ store_calls' = <<>>
            /\ raised' = AttributesEmpty("delete error")
            /\ result' = NoResult
    /\ UNCHANGED <<models, batch_vars, query_vars, aux_vars>>

\* delete / async_delete
MongoDBModel_delete(i, form) ==
    LET self == models[i] IN
    /\ last_call' = CallOf("delete", i, form)
    /\ IF TruthyId(mongo_obj_id(self))
       THEN /\ store_calls' = <<[op |-> "delete_one",
                                 filter |-> [_id |-> mongo_obj_id(self)]]>>
            /\ raised' = NoError
            /\ result' = [type |-> "DeleteResult"]
       ELSE IF TruthyDict(self.attributes)
       THEN /\ store_calls' = <<[op |-> "delete_one",
                                 filter |-> self.attributes]>>
            /\ raised' = NoError
            /\ result' = [type |-> "DeleteResult"]
       ELSE /\ store_calls' = <<>>
            /\ raised' = AttributesEmpty("delete error")
            /\ result' = NoResult
    /\ UNCHANGED <<models, batch_vars, query_vars, aux_vars>>

\* mutant: the reload does not look at the modified count
should_reload_always(modified_count, reload) == reload

\* if res.modified_count and reload
should_reload(modified_count, reload) == modified_count # 0 /\ reload

\* update / async_update; modified: the modified_count the store reports
MongoDBModel_update(i, form, actions, reload, upsert, modified) ==
    LET self == models[i]
        update_one(filter) ==
            [op |-> "update_one", filter |-> filter,
             update |-> [operator |-> "$set", data |-> actions],
             upsert |-> upsert, modified_count |-> modified]
        get_filter == IF TruthyId(mongo_obj_id(self))
                      THEN [_id |-> mongo_obj_id(self)]
                      ELSE self.attributes
        \* what follows the update_one call
        updated(filter) ==
            IF should_reload(modified, reload)
            THEN \E answer \in find_one_answers(get_filter) :
                   /\ store_calls' =
                          <<update_one(filter),
                            [op |-> "find_one", filter |-> get_filter,
                             projection |-> None, answer |-> answer]>>
                   /\ IF answer.found
                      THEN /\ models' = [models EXCEPT ![i] =
                                  _deserialize(self,
                                      from_raw_data(answer.document)
                                          .attribute_values)]
                           /\ raised' = NoError
                           /\ result' = [type |-> "UpdateResult",
                                         modified_count |-> modified]
                      ELSE /\ raised' = DoesNotExist
                           /\ result' = NoResult
                           /\ UNCHANGED models
            ELSE /\ store_calls' = <<update_one(filter)>>
                 /\ raised' = NoError
                 /\ result' = [type |-> "UpdateResult",
                               modified_count |-> modified]
                 /\ UNCHANGED models
    IN
    /\ last_call' = [method |-> "update", item |-> i, form |-> form,
                     reload |-> reload]
    /\ IF TruthyId(mongo_obj_id(self))
       THEN updated([_id |-> mongo_obj_id(self)])
       ELSE IF TruthyDict(self.attributes)
       THEN updated(self.attributes)
       ELSE /\ store_calls' = <<>>
            /\ raised' = AttributesEmpty("update error")
            /\ result' = NoResult
            /\ UNCHANGED models
    /\ UNCHANGED <<batch_vars, query_vars, aux_vars>>

\* mutant: inc falls back to the raw attributes without looking at them
MongoDBModel_inc_unguarded(i, form, actions) ==
    LET self == models[i] IN
    /\ last_call' = CallOf("inc", i, form)
    /\ store_calls' = <<[op |-> "update_one",
                         filter |-> IF TruthyId(mongo_obj_id(self))
                                    THEN [_id |-> mongo_obj_id(self)]
                                    ELSE self.attributes,
                         update |-> [operator |-> "$inc", data |-> actions],
                         upsert |-> FALSE]>>
    /\ raised' = NoError
    /\ result' = [type |-> "UpdateResult"]
    /\ UNCHANGED <<models, batch_vars, query_vars, aux_vars>>

\* inc / async_inc
MongoDBModel_inc(i, form, actions) ==
    LET self == models[i] IN
    /\ last_call' = CallOf("inc", i, form)
    /\ IF TruthyId(mongo_obj_id(self))
       THEN /\ store_calls' = <<[op |-> "update_one",
                                 filter |-> [_id |-> mongo_obj_id(self)],
                                 update |-> [operator |-> "$inc",
                                             data |-> actions],
                                 upsert |-> FALSE]>>
            /\ raised' = NoError
            /\ result' = [type |-> "UpdateResult"]
       ELSE IF TruthyDict(self.attributes)
       THEN /\ store_calls' = <<[op |-> "update_one",
                                 filter |-> self.attributes,
                                 update |-> [operator |-> "$inc",
                                             data |-> actions],
                                 upsert |-> FALSE]>>
            /\ raised' = NoError
            /\ result' = [type |-> "UpdateResult"]
       ELSE /\ store_calls' = <<>>
            /\ raised' = AttributesEmpty("inc error")
            /\ result' = NoResult
    /\ UNCHANGED <<models, batch_vars, query_vars, aux_vars>>

\* get / async_get(**kwargs), its result bound to the name i
MongoDBModel_get(i, form, kwargs) ==
    /\ last_call' = CallOf("get", i, form)
    /\ \E answer \in find_one_answers(kwargs) :
         /\ store_calls' = <<[op |-> "find_one", filter |-> kwargs,
                              projection |-> None, answer |-> answer]>>
         /\ IF answer.found
            THEN /\ models' = [models EXCEPT ![i] =
                                  from_raw_data(answer.document)]
                 /\ raised' = NoError
                 /\ result' = [type |-> "instance"]
            ELSE /\ raised' = DoesNotExist
                 /\ result' = NoResult
                 /\ UNCHANGED models
    /\ UNCHANGED <<batch_vars, query_vars, aux_vars>>

\* an instance built by the constructor, bound to the name i
MongoDBModel_init(i, attributes) ==
    /\ last_call' = CallOf("__init__", i, "sync")
    /\ models' = [models EXCEPT ![i] = Construct(attributes)]
    /\ store_calls' = <<>>
    /\ raised' = NoError
    /\ result' = [type |-> "instance"]
    /\ UNCHANGED <<batch_vars, query_vars, aux_vars>>

----------------------------------------------------------------------------
(* MongoDBModel: the reads, in their synchronous and asynchronous forms *)

\* A list argument is a sequence and None is <<>>: the code tests lists
\* and None alike by their truth.  A keyword dictionary is a function.

\* MetaModel.__init__: the name of the attribute declared with hash_key
_hash_key == "title"

Without(d, keys) == [k \in DOMAIN d \ keys |-> d[k]]

\* async_find: the cursor it builds and iterates
async_find(condition, sort, offset, limit, attributes_to_get) ==
    <<[op |-> "find",
       filter |-> condition,
       fields_to_get |-> {attributes_to_get[n] :
                             n \in DOMAIN attributes_to_get},
       sort |-> sort,
       skip |-> IF offset # 0 THEN offset ELSE 0,
       limit |-> IF limit # 0 THEN limit ELSE 0]>>

\* find: run(async_find(condition, sort, offset, limit, attributes_to_get,
\* hint, explain))
find(condition, sort, offset, limit, attributes_to_get) ==
    async_find(condition, sort, offset, limit, attributes_to_get)

\* async_query(sort, attributes_to_get, **kwargs)
async_query(sort, attributes_to_get, kwargs) ==
    LET offset == IF "offset" \in DOMAIN kwargs THEN kwargs["offset"] ELSE 0
        limit == IF "limit" \in DOMAIN kwargs THEN kwargs["limit"] ELSE 0
    IN async_find(Without(kwargs, {"offset", "limit"}), sort, offset, limit,
                  attributes_to_get)

\* query(attributes_to_get, **kwargs):
\* run(async_query(attributes_to_get, **kwargs)), the first positional
\* parameter of async_query being sort
query(attributes_to_get, kwargs) ==
    async_query(attributes_to_get, <<>>, kwargs)

\* get and async_get: find_one(kwargs, attributes_to_get)
get(attributes_to_get, kwargs) ==
    <<[op |-> "find_one", filter |-> kwargs,
       projection |-> attributes_to_get]>>

async_get(attributes_to_get, kwargs) ==
    <<[op |-> "find_one", filter |-> kwargs,
       projection |-> attributes_to_get]>>

\* batch_get and async_batch_get
batch_get(items, attributes_to_get) ==
    IF items # <<>>
    THEN async_find([k \in {_hash_key} |-> [in |-> items]], <<>>, 0, 0,
                    attributes_to_get)
    ELSE <<>>

async_batch_get(items, attributes_to_get) ==
    IF items # <<>>
    THEN async_find([k \in {_hash_key} |-> [in |-> items]], <<>>, 0, 0,
                    attributes_to_get)
    ELSE <<>>

\* count and async_count
count(filters) == <<[op |-> "count_documents", filter |-> filters]>>
async_count(filters) == <<[op |-> "count_documents", filter |-> filters]>>

\* One read called in both forms with the same arguments: the requests each
\* form sends to the store.

Call_get(attributes_to_get, kwargs) ==
    /\ sync_requests' = get(attributes_to_get, kwargs)
    /\ async_requests' = async_get(attributes_to_get, kwargs)
    /\ UNCHANGED <<models, batch_vars, raised, model_vars, aux_vars>>

Call_find(condition, sort, offset, limit, attributes_to_get) ==
    /\ sync_requests' = find(condition, sort, offset, limit, attributes_to_get)
    /\ async_requests' =
           async_find(condition, sort, offset, limit, attributes_to_get)
    /\ UNCHANGED <<models, batch_vars, raised, model_vars, aux_vars>>

\* query has no sort parameter: both forms are called with
\* attributes_to_get and keyword filters
Call_query(attributes_to_get, kwargs) ==
    /\ sync_requests' = query(attributes_to_get, kwargs)
    /\ async_requests' = async_query(<<>>, attributes_to_get, kwargs)
    /\ UNCHANGED <<models, batch_vars, raised, model_vars, aux_vars>>

Call_batch_get(items, attributes_to_get) ==
    /\ sync_requests' = batch_get(items, attributes_to_get)
    /\ async_requests' = async_batch_get(items, attributes_to_get)
    /\ UNCHANGED <<models, batch_vars, raised, model_vars, aux_vars>>

Call_count(filters) ==
    /\ sync_requests' = count(filters)
    /\ async_requests' = async_count(filters)
    /\ UNCHANGED <<models, batch_vars, raised, model_vars, aux_vars>>

----------------------------------------------------------------------------
(* BatchWrite *)

max_operations == BATCH_WRITE_PAGE_LIMIT

InsertOne(document) == [type |-> "InsertOne", document |-> document]
DeleteOne(filter) == [type |-> "DeleteOne", filter |-> filter]
UpdateOne(filter, operator, data, upsert) ==
    [type |-> "UpdateOne", filter |-> filter,
     update |-> [operator |-> operator, data |-> data], upsert |-> upsert]

\* mutant: commit reads the instance's raw attributes, which are the
\* keyword arguments it was constructed with, for the insert document and
\* for every filter
commit_item_from_raw_attributes(item, ms) ==
    LET mongo_model == ms[item.item] IN
    IF item.action = ADD
    THEN <<InsertOne(mongo_model.attributes)>>
    ELSE IF item.action = DELETE
    THEN <<DeleteOne(mongo_model.attributes)>>
    ELSE IF item.action = UPDATE
    THEN <<UpdateOne(mongo_model.attributes, "$set",
                     item.update, item.upsert)>>
    ELSE IF item.action = INC
    THEN <<UpdateOne(mongo_model.attributes, "$inc",
                     item.update, item.upsert)>>
    ELSE <<>>

\* one turn of the loop of commit: the requests appended for one staged item
commit_item(item, ms) ==
    LET mongo_model == ms[item.item] IN
    IF item.action = ADD
    THEN <<InsertOne(mongo_model.attribute_values)>>
    ELSE IF item.action = DELETE
    THEN IF TruthyId(mongo_obj_id(mongo_model))
         THEN <<DeleteOne([_id |-> mongo_obj_id(mongo_model)])>>
         ELSE <<DeleteOne(mongo_model.attributes)>>
    ELSE IF item.action = UPDATE
    THEN IF TruthyId(mongo_obj_id(mongo_model))
         THEN <<UpdateOne([_id |-> mongo_obj_id(mongo_model)], "$set",
                          item.update, item.upsert)>>
         ELSE <<UpdateOne(mongo_model.attributes, "$set",
                          item.update, item.upsert)>>
    ELSE IF item.action = INC
    THEN IF TruthyId(mongo_obj_id(mongo_model))
         THEN <<UpdateOne([_id |-> mongo_obj_id(mongo_model)], "$inc",
                          item.update, item.upsert)>>
         ELSE <<UpdateOne(mongo_model.attributes, "$inc",
                          item.update, item.upsert)>>
    ELSE <<>>

\* mutant: the loop builds the request list newest first
RECURSIVE mongo_requests_reversed(_, _)
mongo_requests_reversed(ops, ms) ==
    IF ops = <<>> THEN <<>>
    ELSE mongo_requests_reversed(Tail(ops), ms) \o commit_item(Head(ops), ms)

\* the loop of commit: mongo_requests for the pending operations, in order
RECURSIVE mongo_requests_of(_, _)
mongo_requests_of(ops, ms) ==
    IF ops = <<>> THEN <<>>
    ELSE commit_item(Head(ops), ms) \o mongo_requests_of(Tail(ops), ms)

NoAnswer == [type |-> "none"]

Call(name, then, exc) == [name |-> name, then |-> then, exc |-> exc]

\* mutant: the queue is cleared only by a bulk write that succeeds
commit_keeps_queue(call) ==
    LET mongo_requests == mongo_requests_of(pending_operations, models) IN
    /\ caller' = call
    /\ raised' = NoError
    /\ IF mongo_requests = <<>>
       THEN /\ pending_operations' = call.then
            /\ UNCHANGED <<pc, inflight, bulk_answer, bulk_calls>>
       ELSE /\ UNCHANGED pending_operations
            /\ pc' = "flushing"
            /\ inflight' = mongo_requests
            /\ bulk_answer' = NoAnswer
            /\ bulk_calls' = Append(bulk_calls,
                   [ops |-> pending_operations, requests |-> mongo_requests,
                    ordered |-> ordered])

\* mutant: commit hands bulk_write whatever it built, an empty list too
commit_always_writes(call) ==
    LET mongo_requests == mongo_requests_of(pending_operations, models) IN
    /\ caller' = call
    /\ raised' = NoError
    /\ pending_operations' = <<>>
    /\ pc' = "flushing"
    /\ inflight' = mongo_requests
    /\ bulk_answer' = NoAnswer
    /\ bulk_calls' = Append(bulk_calls,
           [ops |-> pending_operations, requests |-> mongo_requests,
            ordered |-> ordered])

\* commit up to its await: build the requests, clear the queue, return if
\* there is nothing to send, else hand the requests to bulk_write.  `call`
\* is the method running commit; call.then is what it appends when commit
\* returns normally.
commit(call) ==
    LET mongo_requests == mongo_requests_of(pending_operations, models) IN
    /\ caller' = call
    /\ raised' = NoError
    /\ IF mongo_requests = <<>>
       THEN /\ pending_operations' = call.then
            /\ UNCHANGED <<pc, inflight, bulk_answer, bulk_calls>>
       ELSE /\ pending_operations' = <<>>
            /\ pc' = "flushing"
            /\ inflight' = mongo_requests
            /\ bulk_answer' = NoAnswer
            /\ bulk_calls' = Append(bulk_calls,
                   [ops |-> pending_operations, requests |-> mongo_requests,
                    ordered |-> ordered])

\* mutant: a stage call appends without looking at the queue's length
stage_unchecked(name, op) ==
    /\ pc = "open"
    /\ Len(staged) < MaxStage
    /\ staged' = Append(staged, op)
    /\ staged_models' = Append(staged_models, models[op.item])
    /\ pending_operations' = Append(pending_operations, op)
    /\ caller' = Call(name, <<>>, FALSE)
    /\ raised' = NoError
    /\ UNCHANGED <<pc, inflight, bulk_answer, bulk_calls>>
    /\ UNCHANGED <<models, ordered, explicit, model_vars, query_vars, aux_vars>>

\* mutant: a stage call flushes as soon as the queue holds an operation
\* short of the page limit
stage_early(name, op) ==
    /\ pc = "open"
    /\ Len(staged) < MaxStage
    /\ staged' = Append(staged, op)
    /\ staged_models' = Append(staged_models, models[op.item])
    /\ IF Len(pending_operations) = max_operations - 1
       THEN commit(Call(name, <<op>>, FALSE))
       ELSE /\ pending_operations' = Append(pending_operations, op)
            /\ caller' = Call(name, <<>>, FALSE)
            /\ raised' = NoError
            /\ UNCHANGED <<pc, inflight, bulk_answer, bulk_calls>>
    /\ UNCHANGED <<models, ordered, explicit, model_vars, query_vars, aux_vars>>

\* the body shared by save, delete, update and inc
stage(name, op) ==
    /\ pc = "open"
    /\ Len(staged) < MaxStage
    /\ staged' = Append(staged, op)
    /\ staged_models' = Append(staged_models, models[op.item])
    /\ IF Len(pending_operations) = max_operations
       THEN commit(Call(name, <<op>>, FALSE))
       ELSE /\ pending_operations' = Append(pending_operations, op)
            /\ caller' = Call(name, <<>>, FALSE)
            /\ raised' = NoError
            /\ UNCHANGED <<pc, inflight, bulk_answer, bulk_calls>>
    /\ UNCHANGED <<models, ordered, explicit, model_vars, query_vars, aux_vars>>

UpdateData == {[title |-> "X"]}
IncData == {[year |-> 1]}

BatchWrite_save(put_item) ==
    /\ put_item \in Inst
    /\ stage("save", [action |-> ADD, item |-> put_item])

BatchWrite_delete(del_item) ==
    /\ del_item \in Inst
    /\ stage("delete", [action |-> DELETE, item |-> del_item])

BatchWrite_update(update_item, update_data, upsert) ==
    /\ update_item \in Inst
    /\ stage("update", [action |-> UPDATE, item |-> update_item,
                        update |-> update_data, upsert |-> upsert])

BatchWrite_inc(inc_item, inc_data, upsert) ==
    /\ inc_item \in Inst
    /\ stage("inc", [action |-> INC, item |-> inc_item,
                     update |-> inc_data, upsert |-> upsert])

\* what the caller assigns to an instance it has staged: an object id to
\* the instance that has none, a new title to the other
Assignments ==
    {[item |-> "m2", name |-> "_id", value |-> "oid2"],
     [item |-> "m1", name |-> "title", value |-> "X"]}

\* instance.name = value: Attribute.__set__ stores the value in the
\* instance's attribute_values; the raw attributes stay as constructed
Attribute_set(item, name, value) ==
    /\ models' = [models EXCEPT ![item].attribute_values =
                      Overlay(@, [n \in {name} |-> value])]
    /\ UNCHANGED <<batch_vars, raised, model_vars, query_vars, aux_vars>>

\* an explicit call of commit
BatchWrite_commit ==
    /\ pc = "open"
    /\ commit(Call("commit", <<>>, FALSE))
    /\ explicit' = TRUE
    /\ UNCHANGED <<models, ordered, staged, staged_models, model_vars,
                   query_vars, aux_vars>>

BatchWrite_aenter ==
    /\ pc = "open"
    /\ caller' = Call("__aenter__", <<>>, FALSE)
    /\ raised' = NoError
    /\ UNCHANGED <<models, pending_operations, ordered, pc, inflight,
                   bulk_answer, staged, staged_models, bulk_calls, explicit, model_vars,
                   query_vars, aux_vars>>

\* mutant: __aexit__ commits only when the scope ended normally
BatchWrite_aexit_normal_only(exc) ==
    /\ pc = "open"
    /\ IF exc
       THEN /\ caller' = Call("__aexit__", <<>>, exc)
            /\ raised' = NoError
            /\ UNCHANGED <<pending_operations, pc, inflight, bulk_answer,
                           bulk_calls>>
       ELSE commit(Call("__aexit__", <<>>, exc))
    /\ explicit' = TRUE
    /\ UNCHANGED <<models, ordered, staged, staged_models, model_vars,
                   query_vars, aux_vars>>

\* __aexit__(exc_type, exc_val, exc_tb); exc: the scope ended by an exception
BatchWrite_aexit(exc) ==
    /\ pc = "open"
    /\ commit(Call("__aexit__", <<>>, exc))
    /\ explicit' = TRUE
    /\ UNCHANGED <<models, ordered, staged, staged_models, model_vars,
                   query_vars, aux_vars>>

\* the awaited bulk_write returns: commit returns, and a stage call appends
bulk_write_returns ==
    /\ pc = "flushing"
    /\ pc' = "open"
    /\ bulk_answer' = [type |-> "BulkWriteResult"]
    /\ pending_operations' = pending_operations \o caller.then
    /\ raised' = NoError
    /\ UNCHANGED <<models, ordered, inflight, caller, staged, staged_models, bulk_calls,
                   explicit, model_vars, query_vars, aux_vars>>

\* raise self.model.BulkWriteException(err.details)
BulkWriteException(details) ==
    [type |-> "BulkWriteException", details |-> details]

BulkWriteErrorDetails == {"writeErrors", "writeConcernErrors"}

\* mutant: the stage call appends its operation in a finally clause, also
\* when its commit raised
bulk_write_raises_then_appends(details) ==
    /\ pc = "flushing"
    /\ pc' = "open"
    /\ bulk_answer' = [type |-> "BulkWriteError", details |-> details]
    /\ raised' = BulkWriteException(details)
    /\ pending_operations' = pending_operations \o caller.then
    /\ UNCHANGED <<models, ordered, inflight, caller,
                   staged, staged_models, bulk_calls, explicit, model_vars,
                   query_vars, aux_vars>>

\* the awaited bulk_write raises BulkWriteError: commit raises the model's
\* BulkWriteException, and so does the stage call or __aexit__ running it
bulk_write_raises(details) ==
    /\ pc = "flushing"
    /\ pc' = "open"
    /\ bulk_answer' = [type |-> "BulkWriteError", details |-> details]
    /\ raised' = BulkWriteException(details)
    /\ UNCHANGED <<models, pending_operations, ordered, inflight, caller,
                   staged, staged_models, bulk_calls, explicit, model_vars,
                   query_vars, aux_vars>>

----------------------------------------------------------------------------
(* Connection.get_connection and MongoDBModel._get_connection, called from  *)
(* several threads.  Neither holds a lock, so a thread may be preempted    *)
(* between any two of the statements below.                                *)

Threads == {"t1", "t2", "t3"}

\* _connection = None (connection.py:10, models.py:56-57); clients are
\* numbered from 1 in the order of their creation
NoClient == 0

NoCollection == [client |-> NoClient]

At(position) == [pc |-> position, connection |-> NoClient,
                 collection |-> NoCollection]

\* models.py:81: if cls._connection is None or cls._collection is None
_get_connection(t) ==
    /\ threads[t].pc = "idle"
    /\ threads' = [threads EXCEPT ![t] =
          At(IF cls_connection = NoClient \/ cls_collection = NoCollection
             THEN "get_connection" ELSE "return")]
    /\ UNCHANGED <<Connection_connection, cls_connection, cls_collection,
                   clients>>
    /\ UNCHANGED other_than_conn

\* connection.py:25: if cls._connection is None
get_connection(t) ==
    /\ threads[t].pc = "get_connection"
    /\ threads' = [threads EXCEPT ![t] =
          At(IF Connection_connection = NoClient
             THEN "AsyncIOMotorClient" ELSE "return_connection")]
    /\ UNCHANGED <<Connection_connection, cls_connection, cls_collection,
                   clients>>
    /\ UNCHANGED other_than_conn

\* connection.py:26-31: the thread's event loop, a new client on it, and
\* the assignment to Connection._connection
AsyncIOMotorClient(t) ==
    /\ threads[t].pc = "AsyncIOMotorClient"
    /\ clients' = Append(clients, t)
    /\ Connection_connection' = Len(clients) + 1
    /\ threads' = [threads EXCEPT ![t] = At("return_connection")]
    /\ UNCHANGED <<cls_connection, cls_collection>>
    /\ UNCHANGED other_than_conn

\* connection.py:32 and models.py:82: return cls._connection, stored in
\* the model class
return_connection(t) ==
    /\ threads[t].pc = "return_connection"
    /\ cls_connection' = Connection_connection
    /\ threads' = [threads EXCEPT ![t] = At("collection")]
    /\ UNCHANGED <<Connection_connection, cls_collection, clients>>
    /\ UNCHANGED other_than_conn

\* models.py:84-86: the collection of the class's current connection
set_collection(t) ==
    /\ threads[t].pc = "collection"
    /\ cls_collection' = [client |-> cls_connection]
    /\ threads' = [threads EXCEPT ![t] = At("return")]
    /\ UNCHANGED <<Connection_connection, cls_connection, clients>>
    /\ UNCHANGED other_than_conn

\* models.py:87: return cls._connection, cls._collection
return_get_connection(t) ==
    /\ threads[t].pc = "return"
    /\ threads' = [threads EXCEPT ![t] =
          [pc |-> "done", connection |-> cls_connection,
           collection |-> cls_collection]]
    /\ UNCHANGED <<Connection_connection, cls_connection, cls_collection,
                   clients>>
    /\ UNCHANGED other_than_conn

\* a thread that has its connection asks for it again
call_again(t) ==
    /\ threads[t].pc = "done"
    /\ threads' = [threads EXCEPT ![t] = At("idle")]
    /\ UNCHANGED <<Connection_connection, cls_connection, cls_collection,
                   clients>>
    /\ UNCHANGED other_than_conn

----------------------------------------------------------------------------
(* MetaModel.__init__: the DoesNotExist class of each model type, and get  *)
(* inside a try statement with a handler for some model type's class       *)

\* model types declared by deriving from MongoDBModel, each with its base
ModelTypes == {"MovieModel", "ChildModel", "ScheduleCacheModel"}

Bases == [MovieModel |-> "MongoDBModel", ChildModel |-> "MovieModel",
          ScheduleCacheModel |-> "MongoDBModel"]

\* pymongodb.exceptions.DoesNotExist, with the classes it derives from
PackageDoesNotExist ==
    [qualname |-> "DoesNotExist",
     mro |-> {"DoesNotExist", "MongoDBException", "Exception"}]

\* type(name, bases, attrs) for an exception class with one base
type(qualname, base) ==
    [qualname |-> qualname, mro |-> {qualname} \cup base.mro]

\* class MongoDBModel: its body sets DoesNotExist = DoesNotExist
MongoDBModelClass ==
    [MongoDBModel |-> [base |-> "object",
                       DoesNotExist |-> PackageDoesNotExist]]

\* mutant: the generated class derives from the DoesNotExist the new model
\* type inherits from its base
generated_from_inherited(name, inherited) ==
    type(name \o ".DoesNotExist", inherited)

\* models.py:42-46: the class generated for a model type whose body
\* declares no DoesNotExist; its one base is the package's DoesNotExist
generated_DoesNotExist(name, inherited) ==
    type(name \o ".DoesNotExist", PackageDoesNotExist)

\* the metaclass runs when the class statement of a model type is executed
MetaModel_init(name) ==
    /\ name \notin DOMAIN classes
    /\ Bases[name] \in DOMAIN classes
    /\ classes' = [n \in DOMAIN classes \cup {name} |->
          IF n = name
          THEN [base |-> Bases[name],
                DoesNotExist |->
                    generated_DoesNotExist(name,
                        classes[Bases[name]].DoesNotExist)]
          ELSE classes[n]]
    /\ UNCHANGED attempt
    /\ UNCHANGED other_than_types

\* except handler.DoesNotExist: isinstance(error, handler.DoesNotExist)
isinstance(error, class) == class.qualname \in error.mro

NoAttempt == [cls |-> "none"]

\* try: cls.get(**kwargs) / await cls.async_get(**kwargs)
\* except handler.DoesNotExist: ...
get_in_try(cls, form, kwargs, handler) ==
    /\ cls \in DOMAIN classes
    /\ handler \in DOMAIN classes
    /\ \E answer \in find_one_answers(kwargs) :
          attempt' =
              IF answer.found
              THEN [cls |-> cls, form |-> form, handler |-> handler,
                    raised |-> FALSE]
              ELSE [cls |-> cls, form |-> form, handler |-> handler,
                    raised |-> TRUE, error |-> classes[cls].DoesNotExist,
                    caught |-> isinstance(classes[cls].DoesNotExist,
                                          classes[handler].DoesNotExist)]
    /\ UNCHANGED classes
    /\ UNCHANGED other_than_types

----------------------------------------------------------------------------
(* The attribute classes' serialize and deserialize (attributes.py).  A     *)
(* Python value is a record of its type and, under the type's name, its    *)
(* content; None has no content.                                           *)

PyNone == [py |-> "NoneType"]
PyBool(b) == [py |-> "bool", bool |-> b]
PyInt(n) == [py |-> "int", int |-> n]
PyStr(s) == [py |-> "str", str |-> s]
PyDatetime(d) == [py |-> "datetime", datetime |-> d]
PyDict(d) == [py |-> "dict", dict |-> d]
PyList(l) == [py |-> "list", list |-> l]
PyObjectId(o) == [py |-> "ObjectId", ObjectId |-> o]

\* Python's truth value: if value / bool(value)
bool(value) ==
    CASE value.py = "NoneType" -> FALSE
      [] value.py = "bool" -> value.bool
      [] value.py = "int" -> value.int # 0
      [] value.py = "str" -> Len(value.str) # 0
      [] value.py = "dict" -> DOMAIN value.dict # {}
      [] value.py = "list" -> Len(value.list) # 0
      [] OTHER -> TRUE

\* Python's ==: None equals only None, True == 1 and False == 0, values of
\* one type are equal when their contents are
PyEquals(a, b) ==
    LET number(x) == IF x.py = "bool" THEN (IF x.bool THEN 1 ELSE 0)
                     ELSE x.int
    IN IF a.py \in {"bool", "int"} /\ b.py \in {"bool", "int"}
       THEN number(a) = number(b)
       ELSE a.py = b.py /\ a = b

AttributeKinds ==
    {"Number", "Boolean", "Unicode", "UTCDateTime", "JSON", "List",
     "ObjectId"}

\* the values an attribute of each kind is meant to hold
LegalValues(kind) ==
    {PyNone} \cup
    CASE kind = "Number" -> {PyInt(n) : n \in -1..3}
      [] kind = "Boolean" -> {PyBool(b) : b \in BOOLEAN}
      [] kind = "Unicode" -> {PyStr(s) : s \in {"", "a", "b", "ab", "ba"}}
      [] kind = "UTCDateTime" ->
             {PyDatetime(d) : d \in {"1970-01-01T00:00:00Z",
                                     "2020-02-29T12:00:00Z"}}
      [] kind = "JSON" ->
             {PyDict(d) : d \in {<<>>, [a |-> 1], [a |-> 2], [b |-> 1]}}
      [] kind = "List" ->
             {PyList(l) : l \in {<<>>, <<1>>, <<2>>, <<1, 2>>, <<2, 1>>}}
      [] kind = "ObjectId" -> {PyObjectId(o) : o \in ObjectIds}

\* what a caller may pass to serialize: a Boolean attribute also takes any
\* value for its truth
Inputs(kind) ==
    LegalValues(kind) \cup
    (IF kind = "Boolean"
     THEN {PyInt(0), PyInt(1), PyStr(""), PyStr("a")}
     ELSE {})

\* serialize of the attribute class: BooleanAttribute (attributes.py:63-69),
\* UnicodeAttribute (78-87; a str is text, so six.u is never reached), and
\* Attribute for the classes that do not override it (29-33)
Attribute_serialize(kind, value) ==
    CASE kind = "Boolean" ->
             IF value.py = "NoneType" THEN PyNone
             ELSE IF bool(value) THEN PyBool(TRUE)
             ELSE PyBool(FALSE)
      [] kind = "Unicode" ->
             IF value.py = "NoneType" \/ Len(value.str) = 0 THEN PyNone
             ELSE value
      [] OTHER -> value

\* deserialize of the attribute class: BooleanAttribute (attributes.py:71-72)
\* and Attribute for every other class (35-39)
Attribute_deserialize(kind, value) ==
    CASE kind = "Boolean" -> PyBool(bool(value))
      [] OTHER -> value

NotRestored == [by |-> "none"]

\* attr.serialize(value)
Call_serialize(kind, value) ==
    /\ value \in Inputs(kind)
    /\ attr_kind' = kind
    /\ attr_value' = value
    /\ storable' = Attribute_serialize(kind, value)
    /\ restored' = NotRestored
    /\ UNCHANGED other_than_attrs

\* attr.deserialize(storable)
Call_deserialize ==
    /\ attr_kind # "none"
    /\ restored' = [by |-> "deserialize",
                    value |-> Attribute_deserialize(attr_kind, storable)]
    /\ UNCHANGED <<attr_kind, attr_value, storable>>
    /\ UNCHANGED other_than_attrs

\* models.py:96-98, the way MongoDBModel._deserialize loads a stored value:
\* deserialize is skipped when the value is None
Call_deserialize_field ==
    /\ attr_kind # "none"
    /\ restored' = [by |-> "_deserialize",
                    value |-> IF storable.py # "NoneType"
                              THEN Attribute_deserialize(attr_kind, storable)
                              ELSE storable]
    /\ UNCHANGED <<attr_kind, attr_value, storable>>
    /\ UNCHANGED other_than_attrs

----------------------------------------------------------------------------
(* Initial state and specifications *)

\* the instances a caller holds: built by the constructor with keyword
\* arguments, or by from_raw_data from a document of the store
InitialModels ==
    {[m1 |-> from_raw_data([_id |-> "oid1", title |-> "A"]),
      m2 |-> Construct(Empty)]}

ConstructorAttributes == {Empty, [title |-> "A"]}
GetFilters == {[title |-> "A"], [title |-> "Z"]}

Init ==
    /\ models \in InitialModels
    /\ pending_operations = <<>>
    /\ ordered \in BOOLEAN
    /\ pc = "open"
    /\ inflight = <<>>
    /\ caller = Call("__init__", <<>>, FALSE)
    /\ bulk_answer = NoAnswer
    /\ raised = NoError
    /\ staged = <<>>
    /\ staged_models = <<>>
    /\ bulk_calls = <<>>
    /\ explicit = FALSE
    /\ last_call = CallOf("none", "m1", "sync")
    /\ store_calls = <<>>
    /\ result = NoResult
    /\ sync_requests = <<>>
    /\ async_requests = <<>>
    /\ Connection_connection = NoClient
    /\ cls_connection = NoClient
    /\ cls_collection = NoCollection
    /\ clients = <<>>
    /\ threads = [t \in Threads |-> At("idle")]
    /\ classes = MongoDBModelClass
    /\ attempt = NoAttempt
    /\ attr_kind = "none"
    /\ attr_value = PyNone
    /\ storable = PyNone
    /\ restored = NotRestored

Next ==
    \/ \E i \in Inst : BatchWrite_save(i)
    \/ \E i \in Inst : BatchWrite_delete(i)
    \/ \E i \in Inst, d \in UpdateData, u \in BOOLEAN : BatchWrite_update(i, d, u)
    \/ \E i \in Inst, d \in IncData, u \in BOOLEAN : BatchWrite_inc(i, d, u)
    \/ BatchWrite_commit
    \/ BatchWrite_aenter
    \/ \E exc \in BOOLEAN : BatchWrite_aexit(exc)
    \/ bulk_write_returns
    \/ \E d \in BulkWriteErrorDetails : bulk_write_raises(d)

Spec == Init /\ [][Next]_vars

NextModel ==
    \/ \E i \in Inst, form \in Forms, oid \in ObjectIds :
           MongoDBModel_save(i, form, oid)
    \/ \E i \in Inst, form \in Forms : MongoDBModel_delete(i, form)
    \/ \E i \in Inst, form \in Forms, actions \in UpdateData,
          reload \in BOOLEAN, upsert \in BOOLEAN, modified \in {0, 1} :
           MongoDBModel_update(i, form, actions, reload, upsert, modified)
    \/ \E i \in Inst, form \in Forms, actions \in IncData :
           MongoDBModel_inc(i, form, actions)
    \/ \E i \in Inst, form \in Forms, kwargs \in GetFilters :
           MongoDBModel_get(i, form, kwargs)
    \/ \E i \in Inst, attributes \in ConstructorAttributes :
           MongoDBModel_init(i, attributes)

SpecModel == Init /\ [][NextModel]_vars

\* a BatchWrite used without the context manager, by a caller that goes on
\* assigning to the instances it has staged
NextLive ==
    \/ \E i \in Inst : BatchWrite_save(i)
    \/ \E i \in Inst : BatchWrite_delete(i)
    \/ \E i \in Inst, d \in UpdateData : BatchWrite_update(i, d, FALSE)
    \/ \E i \in Inst, d \in IncData : BatchWrite_inc(i, d, FALSE)
    \/ BatchWrite_commit
    \/ bulk_write_returns
    \/ \E d \in BulkWriteErrorDetails : bulk_write_raises(d)
    \/ \E a \in Assignments : Attribute_set(a.item, a.name, a.value)

SpecLive == Init /\ [][NextLive]_vars

Conditions == {Empty, [title |-> "A"], [year |-> 1988]}
Sorts == {<<>>, <<"year">>}
Projections == {<<>>, <<"title">>, <<"title", "year">>}
Keywords ==
    {[title |-> "A"], [title |-> "A", offset |-> 1],
     [title |-> "A", offset |-> 1, limit |-> 2], [year |-> 1988, limit |-> 2]}
ItemLists == {<<>>, <<"A">>, <<"A", "X">>}

NextQuery ==
    \/ \E a \in Projections, k \in Conditions : Call_get(a, k)
    \/ \E c \in Conditions, s \in Sorts, offset \in {0, 1}, limit \in {0, 2},
          a \in Projections :
           Call_find(c, s, offset, limit, a)
    \/ \E a \in Projections, k \in Keywords : Call_query(a, k)
    \/ \E items \in ItemLists, a \in Projections : Call_batch_get(items, a)
    \/ \E f \in Conditions : Call_count(f)

SpecQuery == Init /\ [][NextQuery]_vars

NextConnection ==
    \/ \E t \in Threads : _get_connection(t)
    \/ \E t \in Threads : get_connection(t)
    \/ \E t \in Threads : AsyncIOMotorClient(t)
    \/ \E t \in Threads : return_connection(t)
    \/ \E t \in Threads : set_collection(t)
    \/ \E t \in Threads : return_get_connection(t)
    \/ \E t \in Threads : call_again(t)

SpecConnection == Init /\ [][NextConnection]_vars

NextTypes ==
    \/ \E name \in ModelTypes : MetaModel_init(name)
    \/ \E cls \in ModelTypes, form \in Forms, kwargs \in GetFilters,
          handler \in ModelTypes \cup {"MongoDBModel"} :
           get_in_try(cls, form, kwargs, handler)

SpecTypes == Init /\ [][NextTypes]_vars

NextAttributes ==
    \/ \E kind \in AttributeKinds :
          \E value \in Inputs(kind) : Call_serialize(kind, value)
    \/ Call_deserialize
    \/ Call_deserialize_field

SpecAttributes == Init /\ [][NextAttributes]_vars

----------------------------------------------------------------------------
(* Properties of BatchWrite, checked under Spec *)

StageNames == {"save", "delete", "update", "inc"}

\* C1: after every stage call, returned or raised, and in every other state
\* of one BatchWrite, the queue holds between 0 and max_operations
\* operations.
QueueWithinPageLimit ==
    /\ Len(pending_operations) >= 0
    /\ Len(pending_operations) <= max_operations

\* a stage call found the queue full, flushed it and appended its operation
QueueWithinPageLimitWitness ==
    /\ pc = "open"
    /\ caller.name \in StageNames
    /\ caller.then # <<>>
    /\ raised = NoError
    /\ Len(pending_operations) = 1
    /\ Len(staged) = max_operations + 1

\* the request commit builds for one staged operation: its kind, and the
\* document, update and upsert flag it carries (its filter is by object id
\* or by raw attributes)
IsRequestFor(request, op, ms) ==
    LET mongo_model == ms[op.item]
        filters == {[_id |-> mongo_obj_id(mongo_model)],
                    mongo_model.attributes}
    IN
    \/ /\ op.action = ADD
       /\ request.type = "InsertOne"
       /\ request.document = mongo_model.attribute_values
    \/ /\ op.action = DELETE
       /\ request.type = "DeleteOne"
       /\ request.filter \in filters
    \/ /\ op.action \in {UPDATE, INC}
       /\ request.type = "UpdateOne"
       /\ request.filter \in filters
       /\ request.update.operator =
              (IF op.action = UPDATE THEN "$set" ELSE "$inc")
       /\ request.update.data = op.update
       /\ request.upsert = op.upsert

\* C2: from an empty BatchWrite with page limit N and no explicit commit,
\* the first N stage calls issue no bulk write; the (N+1)-th issues exactly
\* one, for the first N staged operations in order, and when that bulk
\* write has returned the queue holds the (N+1)-th operation alone.
FlushAtPageLimit ==
    ~explicit =>
        /\ Len(staged) <= BATCH_WRITE_PAGE_LIMIT => bulk_calls = <<>>
        /\ Len(staged) = BATCH_WRITE_PAGE_LIMIT + 1 =>
              /\ Len(bulk_calls) = 1
              /\ bulk_calls[1].ops = SubSeq(staged, 1, BATCH_WRITE_PAGE_LIMIT)
              /\ Len(bulk_calls[1].requests) = BATCH_WRITE_PAGE_LIMIT
              /\ \A k \in 1..BATCH_WRITE_PAGE_LIMIT :
                    IsRequestFor(bulk_calls[1].requests[k], staged[k], models)
              /\ bulk_answer.type = "BulkWriteResult" =>
                    pending_operations = <<staged[BATCH_WRITE_PAGE_LIMIT + 1]>>

FlushAtPageLimitWitness ==
    /\ ~explicit
    /\ Len(staged) = BATCH_WRITE_PAGE_LIMIT + 1
    /\ pc = "open"
    /\ bulk_answer.type = "BulkWriteResult"
    /\ pending_operations = <<staged[BATCH_WRITE_PAGE_LIMIT + 1]>>
    /\ Len(bulk_calls) = 1

\* a step in which commit runs: called by the caller, by __aexit__, or by a
\* stage call that found the queue full
CommitRuns ==
    /\ pc = "open"
    /\ \/ caller'.name \in {"commit", "__aexit__"}
       \/ caller'.name \in StageNames /\ caller'.then # <<>>

\* C3: a commit of a non-empty queue hands bulk_write one request per staged
\* operation, in the order the operations were staged.
CommitPreservesStagingOrder ==
    [][(CommitRuns /\ pending_operations # <<>>) =>
          /\ pc' = "flushing"
          /\ Len(bulk_calls') = Len(bulk_calls) + 1
          /\ bulk_calls'[Len(bulk_calls')].requests = inflight'
          /\ Len(inflight') = Len(pending_operations)
          /\ \A k \in 1..Len(pending_operations) :
                k \in DOMAIN inflight' /\
                IsRequestFor(inflight'[k], pending_operations[k], models)
      ]_vars

\* a bulk write in flight for a queue of two operations of different kinds
CommitPreservesStagingOrderWitness ==
    /\ pc = "flushing"
    /\ Len(inflight) = 2
    /\ inflight[1].type # inflight[2].type
    /\ caller.name = "commit"

\* C4: the queue is empty while the bulk write is in flight; when the store
\* answers with a bulk-write error the call raises BulkWriteException with
\* the store's details, the queue is empty and the writer is open again.
CommitClearsBeforeBulkWrite ==
    [][/\ pc' = "flushing" => pending_operations' = <<>>
       /\ (pc = "flushing" /\ bulk_answer'.type = "BulkWriteError") =>
             /\ raised' = [type |-> "BulkWriteException",
                           details |-> bulk_answer'.details]
             /\ pending_operations' = <<>>
             /\ pc' = "open"
       /\ (pc = "flushing" /\ bulk_answer'.type # "BulkWriteError") =>
             raised' = NoError
      ]_vars

CommitClearsBeforeBulkWriteWitness ==
    /\ caller.name = "commit"
    /\ raised.type = "BulkWriteException"
    /\ Len(inflight) = max_operations

\* C5: __aexit__ runs commit whether or not the scope ended by an
\* exception: every operation pending at exit goes into one bulk-write call
\* and the queue is empty from then on.
ExitAlwaysCommits ==
    [][/\ (pc = "open" /\ caller'.name = "__aexit__") =>
             /\ pending_operations' = <<>>
             /\ pending_operations # <<>> =>
                   /\ pc' = "flushing"
                   /\ Len(bulk_calls') = Len(bulk_calls) + 1
                   /\ bulk_calls'[Len(bulk_calls')].ops = pending_operations
                   /\ Len(inflight') = Len(pending_operations)
       /\ (pc = "flushing" /\ caller.name = "__aexit__") =>
             pending_operations' = <<>>
      ]_vars

\* the scope ended by an exception with operations pending
ExitAlwaysCommitsWitness ==
    /\ caller.name = "__aexit__"
    /\ caller.exc
    /\ pc = "flushing"
    /\ inflight # <<>>

\* C8: no Delete, Update or Increment request with an empty filter is sent
\* to the store.
NoRequestWithEmptyFilter ==
    pc = "flushing" =>
        \A k \in DOMAIN inflight :
            inflight[k].type \in {"DeleteOne", "UpdateOne"} =>
                inflight[k].filter # Empty

----------------------------------------------------------------------------
(* Properties of MongoDBModel, checked under SpecModel *)

FilteredMethods == {"delete", "update", "inc"}

\* the Delete, Update and Increment operations that can be staged on i
FilteredOps(i) ==
    {[action |-> DELETE, item |-> i]}
    \cup {[action |-> a, item |-> i, update |-> d, upsert |-> u] :
             a \in {UPDATE, INC}, d \in UpdateData \cup IncData,
             u \in BOOLEAN}

\* C6: on an instance with an object id, delete, update and inc in both
\* forms, update's reload, and the Delete, Update and Increment requests
\* commit builds, filter by {_id: object id} whatever the raw attributes
\* are; the raw attributes are the filter when there is no object id.
IdentityPreference ==
    [][\A i \in Inst :
        LET self == models[i]
            oid == mongo_obj_id(self)
            expected == IF TruthyId(oid) THEN [_id |-> oid]
                        ELSE self.attributes
        IN (TruthyId(oid) \/ TruthyDict(self.attributes)) =>
             /\ (last_call'.item = i /\ last_call'.method \in FilteredMethods)
                  => /\ store_calls' # <<>>
                     /\ \A k \in DOMAIN store_calls' :
                           store_calls'[k].filter = expected
             /\ \A op \in FilteredOps(i) :
                   /\ Len(commit_item(op, models)) = 1
                   /\ commit_item(op, models)[1].filter = expected
      ]_vars

\* an asynchronous delete on an instance with object id and raw attributes
IdentityPreferenceWitness ==
    LET self == models[last_call.item] IN
    /\ last_call.method = "delete"
    /\ last_call.form = "async"
    /\ TruthyId(mongo_obj_id(self))
    /\ TruthyDict(self.attributes)
    /\ self.attributes # [_id |-> mongo_obj_id(self)]
    /\ store_calls = <<[op |-> "delete_one",
                        filter |-> [_id |-> mongo_obj_id(self)]]>>

\* C7: delete, update and inc, in both forms, on an instance with neither
\* object id nor raw attributes raise AttributesEmpty, issue no store call
\* and leave every instance as it was.
NoIdentityRaises ==
    [][\A i \in Inst :
        (/\ last_call'.item = i
         /\ last_call'.method \in FilteredMethods
         /\ ~TruthyId(mongo_obj_id(models[i]))
         /\ ~TruthyDict(models[i].attributes))
        => /\ raised'.type = "AttributesEmptyException"
           /\ store_calls' = <<>>
           /\ models' = models
      ]_vars

NoIdentityRaisesWitness ==
    /\ last_call.method = "inc"
    /\ last_call.form = "sync"
    /\ ~TruthyId(mongo_obj_id(models[last_call.item]))
    /\ ~TruthyDict(models[last_call.item].attributes)
    /\ raised.type = "AttributesEmptyException"
    /\ store_calls = <<>>

\* what a reload leaves in a registered field: the fetched document's
\* value, or the field's default when the document lacks the field
ReloadedFrom(values, document) ==
    \A name \in Attributes :
        IF name \in DOMAIN document
        THEN name \in DOMAIN values /\ values[name] = document[name]
        ELSE IF Default(name) # None
        THEN name \in DOMAIN values /\ values[name] = Default(name)
        ELSE name \notin DOMAIN values

\* C9: update fetches exactly when the store reports a modified count of at
\* least 1 and reload is true; the fetch has the update's identity filter;
\* a found document overwrites every registered field; a fetch that finds
\* nothing raises DoesNotExist; with no fetch the instances are unchanged.
ReloadAfterUpdate ==
    [][last_call'.method = "update" =>
        LET i == last_call'.item
            self == models[i]
            oid == mongo_obj_id(self)
            identity == IF TruthyId(oid) THEN [_id |-> oid]
                        ELSE self.attributes
        IN IF ~TruthyId(oid) /\ ~TruthyDict(self.attributes)
           THEN store_calls' = <<>> /\ models' = models
           ELSE /\ Len(store_calls') \in {1, 2}
                /\ store_calls'[1].op = "update_one"
                /\ store_calls'[1].filter = identity
                /\ Len(store_calls') = 2 <=>
                      (store_calls'[1].modified_count >= 1
                       /\ last_call'.reload)
                /\ Len(store_calls') = 1 =>
                      models' = models /\ raised' = NoError
                /\ Len(store_calls') = 2 =>
                      LET fetch == store_calls'[2] IN
                      /\ fetch.op = "find_one"
                      /\ fetch.filter = store_calls'[1].filter
                      /\ IF fetch.answer.found
                         THEN /\ raised' = NoError
                              /\ ReloadedFrom(models'[i].attribute_values,
                                              fetch.answer.document)
                              /\ models'[i].attributes = self.attributes
                              /\ \A j \in Inst \ {i} : models'[j] = models[j]
                         ELSE /\ raised'.type = "DoesNotExist"
                              /\ models' = models
      ]_vars

\* a synchronous update whose reload replaced the title and added the year
ReloadAfterUpdateWitness ==
    /\ last_call.method = "update"
    /\ last_call.form = "sync"
    /\ Len(store_calls) = 2
    /\ store_calls[2].answer.found
    /\ store_calls[2].answer.document =
           [_id |-> "oid1", title |-> "X", year |-> 1988]
    /\ models[last_call.item].attribute_values =
           [_id |-> "oid1", title |-> "X", year |-> 1988]

----------------------------------------------------------------------------
(* Properties of the reads, checked under SpecQuery *)

\* C10: the synchronous form of a read sends the store the requests its
\* asynchronous form sends for the same arguments.
SyncSendsWhatAsyncSends == sync_requests = async_requests

----------------------------------------------------------------------------
(* Further properties of BatchWrite, checked under Spec *)

\* C14: a commit that finds the queue empty calls no bulk write, raises
\* nothing and leaves the queue, the flag, the instances and the record of
\* the last bulk write as they were; a commit that finds operations calls
\* bulk write once, and the call's completion adds no further call.
CommitOfEmptyQueueIsNoOp ==
    [][/\ CommitRuns =>
             IF pending_operations = <<>>
             THEN /\ bulk_calls' = bulk_calls
                  /\ pc' = "open"
                  /\ raised' = NoError
                  /\ pending_operations' = <<>>
                  /\ inflight' = inflight
                  /\ bulk_answer' = bulk_answer
                  /\ ordered' = ordered
                  /\ models' = models
             ELSE /\ Len(bulk_calls') = Len(bulk_calls) + 1
                  /\ pc' = "flushing"
       /\ pc = "flushing" => bulk_calls' = bulk_calls
      ]_vars

\* commit was called on a BatchWrite that never held an operation
CommitOfEmptyQueueIsNoOpWitness ==
    /\ caller.name = "commit"
    /\ explicit
    /\ pc = "open"
    /\ staged = <<>>
    /\ bulk_calls = <<>>
    /\ pending_operations = <<>>
    /\ raised = NoError

\* the operations that reached the queue, in order: those sent in a bulk
\* write, then those still pending
RECURSIVE Sent(_)
Sent(calls) ==
    IF calls = <<>> THEN <<>> ELSE Head(calls).ops \o Sent(Tail(calls))

Queued == Sent(bulk_calls) \o pending_operations

\* the automatic commit of a stage call is completing
StageFlushEnds ==
    /\ pc = "flushing"
    /\ pc' = "open"
    /\ caller.name \in StageNames

\* C15: when the automatic commit of a stage call raises, the stage call
\* raises BulkWriteException, the queue is empty and the operation it was
\* staging has not reached the queue; an operation reaches the queue only
\* in a stage call that returns, so a dropped one is sent only if it is
\* staged again.
FailedFlushDropsOperation ==
    [][/\ (StageFlushEnds /\ bulk_answer'.type = "BulkWriteError") =>
             /\ raised'.type = "BulkWriteException"
             /\ pending_operations' = <<>>
             /\ Queued' = Queued
             /\ staged' = staged
       /\ Queued' # Queued =>
             \/ /\ Len(staged') = Len(staged) + 1
                /\ Queued' = Append(Queued, staged'[Len(staged')])
             \/ /\ StageFlushEnds
                /\ raised' = NoError
                /\ Queued' = Append(Queued, staged[Len(staged)])
      ]_vars

\* a stage call found the queue full, its bulk write raised, and the
\* operation it was staging is neither queued nor sent
FailedFlushDropsOperationWitness ==
    /\ pc = "open"
    /\ caller.name \in StageNames
    /\ caller.then # <<>>
    /\ raised.type = "BulkWriteException"
    /\ pending_operations = <<>>
    /\ Len(staged) = max_operations + 1
    /\ Len(bulk_calls) = 1
    /\ Queued = SubSeq(staged, 1, max_operations)

----------------------------------------------------------------------------
(* Properties of staged instances, checked under SpecLive *)

\* C16: a staged operation refers to the live instance: the requests a
\* commit hands to bulk_write (the step from "open" to "flushing") are built
\* from the instances as they are when commit runs.  An
\* insert carries the field values the instance holds then, and a delete,
\* update or inc of an instance that has an object id then filters by it,
\* whatever the instance held when it was staged.
RequestsBuiltAtCommit ==
    [][(pc = "open" /\ pc' = "flushing") =>
          /\ Len(inflight') = Len(pending_operations)
          /\ \A k \in 1..Len(pending_operations) :
                LET op == pending_operations[k]
                    live == models[op.item]
                IN /\ k \in DOMAIN inflight'
                   /\ IF op.action = ADD
                      THEN inflight'[k].document = live.attribute_values
                      ELSE inflight'[k].filter =
                               IF TruthyId(mongo_obj_id(live))
                               THEN [_id |-> mongo_obj_id(live)]
                               ELSE live.attributes
      ]_vars

\* m1 was staged for insert with title "A" and m2 for delete with no object
\* id; before the commit m1's title became "X" and m2 got an object id; the
\* bulk write in flight inserts the new title and deletes by the object id
RequestsBuiltAtCommitWitness ==
    /\ pc = "flushing"
    /\ Len(staged) = 2
    /\ staged[1] = [action |-> ADD, item |-> "m1"]
    /\ staged_models[1].attribute_values = [_id |-> "oid1", title |-> "A"]
    /\ staged[2] = [action |-> DELETE, item |-> "m2"]
    /\ ~TruthyId(mongo_obj_id(staged_models[2]))
    /\ inflight = <<InsertOne([_id |-> "oid1", title |-> "X"]),
                    DeleteOne([_id |-> "oid2"])>>

----------------------------------------------------------------------------
(* Properties of the connection, checked under SpecConnection *)

\* C11: under any interleaving of threads calling _get_connection, at most
\* one client is ever created, and every caller that has returned holds
\* that client and a collection of that client.
OneClientPerProcess ==
    /\ Len(clients) <= 1
    /\ \A t \in Threads :
          threads[t].pc = "done" =>
              /\ threads[t].connection = 1
              /\ threads[t].collection = [client |-> 1]

----------------------------------------------------------------------------
(* Properties of the model types' exceptions, checked under SpecTypes *)

\* C12: a get that finds no document raises the DoesNotExist of its own
\* model type; the error is an instance of the package's DoesNotExist (which
\* is also MongoDBModel.DoesNotExist) and of no other declared model type's
\* DoesNotExist, the type's base and the types derived from it included, so
\* a handler for another declared model type does not catch it.
OwnDoesNotExist ==
    attempt.cls # "none" /\ attempt.raised =>
        /\ attempt.error = classes[attempt.cls].DoesNotExist
        /\ isinstance(attempt.error, PackageDoesNotExist)
        /\ \A other \in (DOMAIN classes \cap ModelTypes) \ {attempt.cls} :
              ~isinstance(attempt.error, classes[other].DoesNotExist)
        /\ attempt.caught <=>
              attempt.handler \in {attempt.cls, "MongoDBModel"}

\* ChildModel.get finds nothing inside a handler for its base, MovieModel,
\* and the handler does not catch the error
OwnDoesNotExistWitness ==
    /\ attempt.cls = "ChildModel"
    /\ attempt.handler = "MovieModel"
    /\ attempt.raised
    /\ ~attempt.caught
    /\ attempt.error.qualname = "ChildModel.DoesNotExist"

----------------------------------------------------------------------------
(* Properties of the attribute classes, checked under SpecAttributes *)

\* C13: for every attribute kind and every legal value v of the kind, None
\* and the empty Unicode string included, deserialize(serialize(v)) equals
\* v; a Boolean that is None does not come back as False.
RoundTrip ==
    /\ restored.by = "deserialize"
    /\ attr_value \in LegalValues(attr_kind)
    => PyEquals(restored.value, attr_value)

====
